---- MODULE Spec2Model ----
(***************************************************************************)
(* Model of the Pocket migration scripts                                   *)
(*   archive/pocket-migration/extract_unread_links.py  (the extractor)     *)
(*   archive/pocket-migration/import_to_psreadthis.py  (the importer)      *)
(*                                                                         *)
(* Text is a sequence of one-character strings.  A source file is the      *)
(* sequence of rows csv.reader yields for it; the normalized file is the   *)
(* text csv.writer produces and csv.DictReader parses.                     *)
(***************************************************************************)
EXTENDS Integers, Sequences, FiniteSets, TLC

VARIABLES
    mode,             \* which program runs: "import_links", "batch_insert",
                      \* "extract", "extract_long", "unix_to_iso"
    pc,               \* position of the running program
    norm_file,        \* pocket_unread_links.csv: [exists, text]
    pocket_links,     \* import_links: the loaded rows (dicts)
    psreadthis_links, \* import_links / batch_insert: the target records (links)
    user_input,       \* import_links: what input() returned
    batch_size,       \* batch_insert: batch_size
    i,                \* batch_insert: loop variable i (0-based offset)
    results,          \* batch_insert: results
    j,                \* individual_insert: loop variable i (1-based)
    ind_results,      \* individual_insert: results
    trace,            \* every GET, POST, sleep, load and prompt, in order
    file_idx,         \* extractor: index of csv_file in csv_files (1-based)
    src_rows,         \* extractor: the rows each source file has yielded so far
    src_pos,          \* extractor: number of rows consumed since the last seek
    row_num,          \* extractor: row_num of the enumerate loop
    unread_links,     \* extractor: unread_links
    total_unread,     \* extractor: total_unread
    file_unread,      \* extractor: file_unread
    file_state,       \* extractor: per source file, how its processing ended
    warnings,         \* extractor: the rows logged as warnings, per file
    loaded,           \* round trip: what load_pocket_csv returns for norm_file
    tz,               \* the zone of the machine: its offset from UTC in seconds
    unix_timestamp,   \* unix_to_iso: its argument
    iso               \* unix_to_iso: how the call ended

vars == << mode, pc, norm_file, pocket_links, psreadthis_links, user_input,
           batch_size, i, results, j, ind_results, trace,
           file_idx, src_rows, src_pos, row_num, unread_links, total_unread,
           file_unread, file_state, warnings, loaded, tz, unix_timestamp, iso >>

importerVars == << pocket_links, psreadthis_links, user_input, batch_size, i,
                   results, j, ind_results, trace >>

extractorVars == << file_idx, src_rows, src_pos, row_num, unread_links,
                    total_unread, file_unread, file_state, warnings, loaded >>

clockVars == << tz, unix_timestamp, iso >>

----------------------------------------------------------------------------
(* Bounds of the model *)

\* most target records handed to batch_insert directly
MaxLinks == 3
\* largest batch_size handed to batch_insert directly
MaxBatch == 3
\* most data rows of the normalized file that import_links is given
MaxFileRows == 2
\* most rows the first source file of the extractor yields
MaxRows == 2
\* most rows the second source file of the extractor yields
MaxRowsSecond == 1
\* most rows the first source file yields when the extractor is run on long
\* files
MaxLongRows == 11

----------------------------------------------------------------------------
(* Text *)

\* Python's None where a text may stand; no text of the model holds this element
None == <<"None">>

s_title == <<"t","i","t","l","e">>
s_url == <<"u","r","l">>
s_time_added == <<"t","i","m","e","_","a","d","d","e","d">>
s_tags == <<"t","a","g","s">>
s_status == <<"s","t","a","t","u","s">>
s_source_file == <<"s","o","u","r","c","e","_","f","i","l","e">>
s_unread == <<"u","n","r","e","a","d">>
s_read == <<"r","e","a","d">>
s_y == <<"y">>
s_empty == << >>

Whitespace == {" ", "\t", "\n", "\r"}

RECURSIVE LStrip(_)
LStrip(s) == IF s # << >> /\ Head(s) \in Whitespace THEN LStrip(Tail(s)) ELSE s

RECURSIVE RStrip(_)
RStrip(s) ==
    IF s # << >> /\ s[Len(s)] \in Whitespace
    THEN RStrip(SubSeq(s, 1, Len(s) - 1))
    ELSE s

\* str.strip()
Strip(s) == RStrip(LStrip(s))

LowerChar(c) ==
    CASE c = "Y" -> "y"
      [] c = "N" -> "n"
      [] c = "E" -> "e"
      [] c = "S" -> "s"
      [] OTHER -> c

\* str.lower()
Lower(s) == [k \in 1..Len(s) |-> LowerChar(s[k])]

RECURSIVE Concat(_)
\* the concatenation of a sequence of sequences
Concat(ss) == IF ss = << >> THEN << >> ELSE Head(ss) \o Concat(Tail(ss))

Range(s) == {s[k] : k \in 1..Len(s)}

CeilDiv(n, d) == (n + d - 1) \div d

----------------------------------------------------------------------------
(* The normalized file as text: csv.writer and csv.DictReader *)

NeedsQuote(f) == \E k \in 1..Len(f) : f[k] \in {",", "\"", "\r", "\n"}

\* a field between quotes, its quotes doubled
QuoteField(f) ==
    <<"\"">> \o Concat([k \in 1..Len(f) |->
                          IF f[k] = "\"" THEN <<"\"", "\"">> ELSE <<f[k]>>])
             \o <<"\"">>

WriteField(f) == IF NeedsQuote(f) THEN QuoteField(f) ELSE f

RECURSIVE JoinFields(_)
JoinFields(fs) ==
    IF fs = << >> THEN << >>
    ELSE IF Len(fs) = 1 THEN WriteField(fs[1])
    ELSE WriteField(fs[1]) \o <<",">> \o JoinFields(Tail(fs))

\* csv.writer(f).writerow(fields), excel dialect: QUOTE_MINIMAL, "\r\n"
WriteRow(fields) ==
    (IF fields = << s_empty >> THEN <<"\"", "\"">> ELSE JoinFields(fields))
        \o <<"\r", "\n">>

\* open(filename, 'r') without newline='': "\r\n" and "\r" are read as "\n"
UniversalNewlines(t) ==
    LET kept == SelectSeq([k \in 1..Len(t) |-> k],
                          LAMBDA k : ~(t[k] = "\n" /\ k > 1 /\ t[k - 1] = "\r"))
    IN [m \in 1..Len(kept) |-> IF t[kept[m]] = "\r" THEN "\n" ELSE t[kept[m]]]

\* the first position from k on that holds a character of cs; Len(t) + 1 if none
FirstOf(t, k, cs) ==
    LET hits == {m \in k..Len(t) : t[m] \in cs}
    IN IF hits = {} THEN Len(t) + 1
       ELSE CHOOSE m \in hits : \A n \in hits : m <= n

QuotesIn(t, a, b) == Cardinality({q \in a..b : t[q] = "\""})

\* the quote that closes the quoted field opened at k: the first one that is
\* not half of a doubled quote; Len(t) + 1 if the field is never closed
ClosingQuote(t, k) ==
    LET closing == {m \in (k + 1)..Len(t) :
                       /\ t[m] = "\""
                       /\ QuotesIn(t, k + 1, m) % 2 = 1
                       /\ (m = Len(t) \/ t[m + 1] # "\"")}
    IN IF closing = {} THEN Len(t) + 1
       ELSE CHOOSE m \in closing : \A n \in closing : m <= n

\* t[a..b], the inside of a quoted field, with each doubled quote read as one
Unescape(t, a, b) ==
    LET kept == SelectSeq([m \in 1..(IF b >= a THEN b - a + 1 ELSE 0) |-> a + m - 1],
                          LAMBDA q : ~(t[q] = "\"" /\ QuotesIn(t, a, q) % 2 = 1))
    IN [m \in 1..Len(kept) |-> t[kept[m]]]

\* the position of the delimiter or line end that ends the field starting at k
FieldEnd(t, k) ==
    IF t[k] # "\"" THEN FirstOf(t, k, {",", "\n"})
    ELSE FirstOf(t, ClosingQuote(t, k) + 1, {",", "\n"})

\* the text of the field that starts at k and ends before e
FieldText(t, k, e) ==
    IF t[k] # "\"" THEN SubSeq(t, k, e - 1)
    ELSE LET c == ClosingQuote(t, k)
         IN Unescape(t, k + 1, c - 1) \o SubSeq(t, c + 1, e - 1)

RECURSIVE ParseCsv(_, _, _, _, _)
\* csv.reader (excel dialect, not strict) over text t from position k, where a
\* record (st = "start_record") or a field after a delimiter (st =
\* "start_field") begins; row and rows are what it has collected
ParseCsv(t, k, st, row, rows) ==
    IF k > Len(t)
    THEN IF st = "start_record" THEN rows ELSE Append(rows, Append(row, << >>))
    ELSE IF st = "start_record" /\ t[k] = "\n"
    THEN ParseCsv(t, k + 1, "start_record", << >>, Append(rows, << >>))
    ELSE LET e == FieldEnd(t, k)
             f == FieldText(t, k, e)
         IN IF e > Len(t) THEN Append(rows, Append(row, f))
            ELSE IF t[e] = ","
            THEN ParseCsv(t, e + 1, "start_field", Append(row, f), rows)
            ELSE ParseCsv(t, e + 1, "start_record", << >>, Append(rows, Append(row, f)))

\* the rows csv.reader yields for a file opened in text mode
ReadRows(text) == ParseCsv(UniversalNewlines(text), 1, "start_record", << >>, << >>)

\* the dict csv.DictReader builds from one row: a later field name wins, a
\* missing value is None (restval); the restkey entry is not modelled
DictOf(fieldnames, row) ==
    [key \in Range(fieldnames) |->
        LET idx == CHOOSE k \in 1..Len(fieldnames) :
                       /\ fieldnames[k] = key
                       /\ \A m \in 1..Len(fieldnames) : fieldnames[m] = key => m <= k
        IN IF idx <= Len(row) THEN row[idx] ELSE None]

\* csv.DictReader: the first row names the fields, empty rows are skipped
DictReader(text) ==
    LET rows == ReadRows(text) IN
    IF rows = << >> THEN << >>
    ELSE LET data == SelectSeq(Tail(rows), LAMBDA r : r # << >>)
         IN [k \in 1..Len(data) |-> DictOf(rows[1], data[k])]

\* mutant of IsUnreadDict: every row with a status is loaded
IsUnreadDict_AnyStatus(row) == row[s_status] # s_empty

\* if row['status'] == 'unread'
IsUnreadDict(row) == row[s_status] = s_unread

\* PSReadThisImporter.load_pocket_csv: any exception (no file, a row without
\* the key 'status') yields []
load_pocket_csv(file) ==
    IF ~file.exists THEN << >>
    ELSE LET dicts == DictReader(file.text) IN
         IF \E k \in 1..Len(dicts) : s_status \notin DOMAIN dicts[k]
         THEN << >>
         ELSE SelectSeq(dicts, IsUnreadDict)

OUTPUT_HEADER == << s_title, s_url, s_time_added, s_tags, s_status, s_source_file >>

\* the text the extractor writes for unread_links (a sequence of rows)
WriteOutput(links) ==
    WriteRow(OUTPUT_HEADER) \o Concat([k \in 1..Len(links) |-> WriteRow(links[k])])

----------------------------------------------------------------------------
(* Digit strings and timestamps *)

AsciiDigits == {"0", "1", "2", "3", "4", "5", "6", "7", "8", "9"}
\* characters str.isdigit() accepts and int() rejects (superscript two)
OtherDigits == {"U+00B2"}

\* str.isdigit()
IsDigit(t) == t # << >> /\ \A k \in 1..Len(t) : t[k] \in AsciiDigits \cup OtherDigits

RECURSIVE StripZeros(_)
StripZeros(t) == IF Len(t) > 1 /\ Head(t) = "0" THEN StripZeros(Tail(t)) ELSE t

\* the last second datetime.fromtimestamp accepts: 9999-12-31T23:59:59 UTC
MAX_TIMESTAMP == <<"2","5","3","4","0","2","3","0","0","7","9","9">>

DigitChars == <<"0", "1", "2", "3", "4", "5", "6", "7", "8", "9">>

\* the value of an ASCII digit
DigitValue(c) == (CHOOSE k \in 1..10 : DigitChars[k] = c) - 1

\* a > b for digit strings of the same length
DigitsGreater(a, b) ==
    \E k \in 1..Len(a) :
        /\ DigitValue(a[k]) > DigitValue(b[k])
        /\ \A m \in 1..(k - 1) : a[m] = b[m]

\* datetime.fromtimestamp(int(t)) raises for a string t that str.isdigit()
\* accepts: int() rejects it, or the time is beyond the year 9999
TimestampRaises(t) ==
    \/ \E k \in 1..Len(t) : t[k] \in OtherDigits
    \/ LET d == StripZeros(t) IN
          \/ Len(d) > Len(MAX_TIMESTAMP)
          \/ Len(d) = Len(MAX_TIMESTAMP) /\ DigitsGreater(d, MAX_TIMESTAMP)

\* the zone of the machine, as its offset from UTC in seconds: New York
\* (EST), UTC and Tokyo
TimeZones == {-18000, 0, 32400}

SECONDS_PER_DAY == 86400

\* an instant, or the reading of a wall clock: the day counted from
\* 1970-01-01 and the second of that day
DateTime(days, secs) == [days |-> days, secs |-> secs]

RECURSIVE EpochOf(_)
\* int(t) seconds after the epoch, for a string t of ASCII digits
EpochOf(t) ==
    IF t = << >> THEN DateTime(0, 0)
    ELSE LET front == EpochOf(SubSeq(t, 1, Len(t) - 1))
             s == 10 * front.secs + DigitValue(t[Len(t)])
         IN DateTime(10 * front.days + s \div SECONDS_PER_DAY, s % SECONDS_PER_DAY)

\* what the wall clock of zone shows at an instant
LocalTime(instant, zone) ==
    LET s == instant.secs + zone
    IN DateTime(instant.days + s \div SECONDS_PER_DAY, s % SECONDS_PER_DAY)

\* the day of datetime.max, 9999-12-31
MAX_DAY == 2932896

\* the largest time_t, 2^63 - 1
TIME_T_MAX == <<"9","2","2","3","3","7","2","0","3","6","8","5","4","7","7","5","8","0","7">>

\* what datetime.fromtimestamp(int(t)) raises on a machine in zone, for a
\* string t that str.isdigit() accepts: ValueError from int() or for a year
\* after 9999 (OSError for years localtime() cannot hold, which unix_to_iso
\* treats alike), OverflowError beyond time_t, "none" when it returns
FromTimestampError(t, zone) ==
    IF \E k \in 1..Len(t) : t[k] \in OtherDigits THEN "ValueError"
    ELSE LET d == StripZeros(t) IN
         IF \/ Len(d) > Len(TIME_T_MAX)
            \/ Len(d) = Len(TIME_T_MAX) /\ DigitsGreater(d, TIME_T_MAX)
         THEN "OverflowError"
         ELSE IF Len(d) > Len(MAX_TIMESTAMP) + 1 THEN "ValueError"
         ELSE IF LocalTime(EpochOf(d), zone).days > MAX_DAY THEN "ValueError"
         ELSE "none"

\* "+00:00"
UTC_SUFFIX == <<"+", "0", "0", ":", "0", "0">>

\* dt.isoformat() + suffix: the date and the time of day it spells, and the
\* offset that follows them
Iso(dt, suffix) == [date |-> dt.days, time |-> dt.secs, offset |-> suffix]

NoIso == Iso(DateTime(0, 0), << >>)

\* how a call ends: it returns a value, or it raises
Returned(v) == [raised |-> FALSE, exc |-> "", value |-> v]
RaisedWith(exc) == [raised |-> TRUE, exc |-> exc, value |-> NoIso]

\* the instant datetime.now() is called at: 2025-11-02T19:26:40 UTC
NOW == DateTime(20394, 70000)

\* except (ValueError, OSError)
CaughtErrors == {"ValueError", "OSError"}

\* unix_to_iso(unix_timestamp) on a machine in zone; ts, the argument, is
\* a text or None
unix_to_iso(ts, zone) ==
    LET fallback == Returned(Iso(LocalTime(NOW, zone), UTC_SUFFIX))
    IN IF ts # None /\ ts # s_empty /\ IsDigit(ts)
       THEN LET err == FromTimestampError(ts, zone)
            IN IF err = "none"
               THEN Returned(Iso(LocalTime(EpochOf(StripZeros(ts)), zone),
                                 UTC_SUFFIX))
               ELSE IF err \in CaughtErrors THEN fallback
               ELSE RaisedWith(err)
       ELSE fallback

----------------------------------------------------------------------------
(* The importer: import_to_psreadthis.py *)

\* batch_size: int = 50
DEFAULT_BATCH_SIZE == 50

Digits == <<"1", "2", "3", "4", "5", "6", "7", "8", "9">>

\* what a request ends in: a response with a status code, or an exception
Response(sc) == [raised |-> FALSE, status_code |-> sc]
Raised == [raised |-> TRUE, status_code |-> 0]

ProbeOutcomes == {Response(200), Response(201), Response(503), Raised}
PostOutcomes == {Response(200), Response(201), Response(400), Response(500), Raised}

Event(ev, kind, body, outcome) ==
    [ev |-> ev, kind |-> kind, body |-> body, outcome |-> outcome]

NoOutcome == Response(0)
GetEvent(o) == Event("get", "probe", << >>, o)
LoadEvent == Event("load", "csv", << >>, NoOutcome)
InputEvent == Event("input", "prompt", << >>, NoOutcome)
PostEvent(kind, body, o) == Event("post", kind, body, o)
\* time.sleep(0.5) after a batch, time.sleep(0.2) after an individual request
SleepEvent(kind) == Event("sleep", kind, << >>, NoOutcome)

EmptyResults == [success |-> 0, failed |-> 0, errors |-> << >>]

ErrorMsg(level, num, what, sc, url) ==
    [level |-> level, num |-> num, what |-> what, status_code |-> sc, raw_url |-> url]

\* mutant of test_connection: any response counts as a connection
test_connection_AnyResponse(o) == ~o.raised

\* test_connection: True only for a response with status 200
test_connection(o) == ~o.raised /\ o.status_code = 200

\* response.status_code in [200, 201]
IsSuccess(o) == ~o.raised /\ o.status_code \in {200, 201}

\* prepare_link_data on a machine in zone, with link_id standing for the
\* fresh uuid4
prepare_link_data(pocket_link, link_id, zone) ==
    [id |-> link_id,
     raw_url |-> pocket_link[s_url],
     title |-> IF pocket_link[s_title] # s_empty THEN pocket_link[s_title] ELSE None,
     created_at |-> unix_to_iso(pocket_link[s_time_added], zone).value]

\* the keys prepare_link_data reads; a dict without one raises KeyError
PrepareKeys == {s_url, s_title, s_time_added}

\* mutant of Proceed: anything but a refusal proceeds
Proceed_UnlessNo(inp) == Lower(Strip(inp)) # <<"n">>

\* input(...).strip().lower() == 'y'
Proceed(inp) == Lower(Strip(inp)) = s_y

UserInputs == { s_empty, s_y, <<"Y">>, <<" ", "y", "\t">>, <<"y", "e", "s">>,
                <<"n">>, <<"N">> }

\* links[i:i + batch_size]
Batch(links, start, size) ==
    SubSeq(links, start + 1, IF start + size > Len(links) THEN Len(links) ELSE start + size)

\* batch_num = (i // batch_size) + 1
BatchNum(start, size) == (start \div size) + 1

\* batch_insert, lines 92-99 and 108-112: the counters after the batched request
BatchOutcome(res, batch, batch_num, o) ==
    IF IsSuccess(o)
    THEN [res EXCEPT !.success = @ + Len(batch)]
    ELSE IF ~o.raised
    THEN [res EXCEPT !.failed = @ + Len(batch),
                     !.errors = Append(@, ErrorMsg("Batch", batch_num, "failed",
                                                   o.status_code, None))]
    ELSE [res EXCEPT !.failed = @ + Len(batch),
                     !.errors = Append(@, ErrorMsg("Batch", batch_num, "exception",
                                                   0, None))]

\* mutant of RetriesIndividually: every batch is retried individually
RetriesIndividually_Always(o) == TRUE

\* batch_insert retries a batch individually only in the else branch of the
\* status test (line 103); an exception goes to the except clause
RetriesIndividually(o) == ~o.raised /\ ~IsSuccess(o)

\* mutant of MergeIndividual: the failed count is not adjusted
MergeIndividual_NoAdjust(res, ind) ==
    [success |-> res.success + ind.success,
     failed |-> res.failed,
     errors |-> res.errors \o ind.errors]

\* batch_insert, lines 104-106
MergeIndividual(res, ind) ==
    [success |-> res.success + ind.success,
     failed |-> res.failed - ind.success,
     errors |-> res.errors \o ind.errors]

\* mutant of IndividualOutcome: the error of a rejected record lacks its URL
IndividualOutcome_NoUrl(ind, link, idx, o) ==
    IF IsSuccess(o)
    THEN [ind EXCEPT !.success = @ + 1]
    ELSE IF ~o.raised
    THEN [ind EXCEPT !.failed = @ + 1,
                     !.errors = Append(@, ErrorMsg("Individual", idx, "failed",
                                                   o.status_code, None))]
    ELSE [ind EXCEPT !.failed = @ + 1,
                     !.errors = Append(@, ErrorMsg("Individual", idx, "exception",
                                                   0, link.raw_url))]

\* individual_insert, lines 131-138 and 142-146
IndividualOutcome(ind, link, idx, o) ==
    IF IsSuccess(o)
    THEN [ind EXCEPT !.success = @ + 1]
    ELSE IF ~o.raised
    THEN [ind EXCEPT !.failed = @ + 1,
                     !.errors = Append(@, ErrorMsg("Individual", idx, "failed",
                                                   o.status_code, link.raw_url))]
    ELSE [ind EXCEPT !.failed = @ + 1,
                     !.errors = Append(@, ErrorMsg("Individual", idx, "exception",
                                                   0, link.raw_url))]

\* mutant of IndividualBody: the record is sent under a new id
IndividualBody_NewId(link) == << [link EXCEPT !.id = @ + 100] >>

\* json=[link] (line 129): the body of an individual request
IndividualBody(link) == << link >>

\* individual_insert sleeps inside the try block, after a response only
IndividualSleeps(o) == ~o.raised

\* for i, link in enumerate(links, 1): the index of the next link
NextIndividual(idx, o) == idx + 1

\* mutant of NextBatchStart: the offset advances by one record
NextBatchStart_ByOne(start, size) == start + 1

\* for i in range(0, len(links), batch_size): the next offset
NextBatchStart(start, size) == start + size

\* rows a normalized file may hold: title, url, time_added, tags, status, source_file
NormRowA == << <<"A">>, <<"x">>, <<"1">>, s_empty, s_unread, <<"f">> >>
NormRowB == << <<"B", ",", "\"">>, <<"y">>, <<"n">>, s_empty, s_unread, <<"f">> >>
NormRowC == << s_empty, <<"z">>, <<"2">>, s_empty, s_read, <<"f">> >>
\* a time_added of 2^63 seconds
NormRowD == << <<"D">>, <<"w">>, <<"9","2","2","3","3","7","2","0","3","6","8","5","4",
                                   "7","7","5","8","0","8">>, s_empty, s_unread, <<"f">> >>
NormRowPool == {NormRowA, NormRowB, NormRowC, NormRowD}

RECURSIVE SeqsUpTo(_, _)
\* the sequences over S of length at most n
SeqsUpTo(S, n) ==
    IF n = 0 THEN {<< >>}
    ELSE LET shorter == SeqsUpTo(S, n - 1)
         IN shorter \cup {Append(q, x) : q \in shorter, x \in S}

File(text) == [exists |-> TRUE, text |-> text]
Missing == [exists |-> FALSE, text |-> << >>]

\* the normalized files import_links is run on: none, an empty one, one
\* without the status column, and what the extractor writes for some rows
NormFiles ==
    {Missing, File(<< >>),
     File(WriteRow(<<s_title, s_url>>) \o WriteRow(<< <<"A">>, <<"x">> >>))}
    \cup {File(WriteOutput(rows)) : rows \in SeqsUpTo(NormRowPool, MaxFileRows)}

\* the target records handed to batch_insert directly
DirectLinks(n) ==
    [k \in 1..n |-> [id |-> k, raw_url |-> <<"u", Digits[k]>>, title |-> None]]

ExtractorIdle ==
    /\ file_idx = 0
    /\ src_rows = << >>
    /\ src_pos = 0
    /\ row_num = 0
    /\ unread_links = << >>
    /\ total_unread = 0
    /\ file_unread = 0
    /\ file_state = << >>
    /\ warnings = << >>
    /\ loaded = << >>

\* no call of unix_to_iso has ended
NoCall == Returned(NoIso)

ClockIdle ==
    /\ tz = 0
    /\ unix_timestamp = None
    /\ iso = NoCall

ImporterIdle ==
    /\ pocket_links = << >>
    /\ psreadthis_links = << >>
    /\ user_input = << >>
    /\ batch_size = DEFAULT_BATCH_SIZE
    /\ i = 0
    /\ results = EmptyResults
    /\ j = 0
    /\ ind_results = EmptyResults
    /\ trace = << >>

\* importer.import_links() on some normalized file
InitImportLinks ==
    /\ mode = "import_links"
    /\ pc = "start"
    /\ norm_file \in NormFiles
    /\ ImporterIdle
    /\ ExtractorIdle
    /\ tz \in TimeZones
    /\ unix_timestamp = None
    /\ iso = NoCall

\* importer.batch_insert(links, batch_size) on some links and batch size
InitBatchInsert ==
    /\ mode = "batch_insert"
    /\ pc = "batch_loop"
    /\ norm_file = Missing
    /\ pocket_links = << >>
    /\ \E n \in 0..MaxLinks : psreadthis_links = DirectLinks(n)
    /\ user_input = << >>
    /\ batch_size \in 1..MaxBatch
    /\ i = 0
    /\ results = EmptyResults
    /\ j = 0
    /\ ind_results = EmptyResults
    /\ trace = << >>
    /\ ExtractorIdle
    /\ ClockIdle

Init == InitImportLinks \/ InitBatchInsert

\* import_links, lines 187-190
TestConnection ==
    /\ pc = "start"
    /\ \E o \in ProbeOutcomes :
        /\ trace' = Append(trace, GetEvent(o))
        /\ pc' = IF test_connection(o) THEN "load" ELSE "no_connection"
    /\ UNCHANGED << mode, norm_file, pocket_links, psreadthis_links, user_input,
                    batch_size, i, results, j, ind_results >>
    /\ UNCHANGED extractorVars
    /\ UNCHANGED clockVars

\* import_links, lines 192-196
LoadPocketCsv ==
    /\ pc = "load"
    /\ pocket_links' = load_pocket_csv(norm_file)
    /\ trace' = Append(trace, LoadEvent)
    /\ pc' = IF pocket_links' = << >> THEN "no_links" ELSE "convert"
    /\ UNCHANGED << mode, norm_file, psreadthis_links, user_input,
                    batch_size, i, results, j, ind_results >>
    /\ UNCHANGED extractorVars
    /\ UNCHANGED clockVars

\* import_links, lines 198-203: a row without a key prepare_link_data reads
\* raises KeyError, a time_added unix_to_iso raises on ends the run as well
Convert ==
    /\ pc = "convert"
    /\ IF \E k \in 1..Len(pocket_links) : ~(PrepareKeys \subseteq DOMAIN pocket_links[k])
       THEN /\ psreadthis_links' = psreadthis_links
            /\ pc' = "key_error"
       ELSE IF \E k \in 1..Len(pocket_links) :
                  unix_to_iso(pocket_links[k][s_time_added], tz).raised
       THEN /\ psreadthis_links' = psreadthis_links
            /\ pc' = "overflow_error"
       ELSE /\ psreadthis_links' =
                  [k \in 1..Len(pocket_links) |-> prepare_link_data(pocket_links[k], k, tz)]
            /\ pc' = "confirm"
    /\ UNCHANGED << mode, norm_file, pocket_links, user_input,
                    batch_size, i, results, j, ind_results, trace >>
    /\ UNCHANGED extractorVars
    /\ UNCHANGED clockVars

\* import_links, lines 205-216: the prompt, and the call of batch_insert
Confirm ==
    /\ pc = "confirm"
    /\ \E inp \in UserInputs :
        /\ user_input' = inp
        /\ pc' = IF Proceed(inp) THEN "batch_loop" ELSE "cancelled"
    /\ trace' = Append(trace, InputEvent)
    /\ batch_size' = DEFAULT_BATCH_SIZE
    /\ i' = 0
    /\ results' = EmptyResults
    /\ UNCHANGED << mode, norm_file, pocket_links, psreadthis_links, j, ind_results >>
    /\ UNCHANGED extractorVars
    /\ UNCHANGED clockVars

\* batch_insert, lines 83-115: one iteration up to the end of the batched
\* request; a failure response enters individual_insert
BatchPost ==
    /\ pc = "batch_loop"
    /\ i < Len(psreadthis_links)
    /\ LET batch == Batch(psreadthis_links, i, batch_size) IN
       \E o \in PostOutcomes :
        /\ results' = BatchOutcome(results, batch, BatchNum(i, batch_size), o)
        /\ IF RetriesIndividually(o)
           THEN /\ pc' = "individual_loop"
                /\ j' = 1
                /\ ind_results' = EmptyResults
                /\ i' = i
                /\ trace' = Append(trace, PostEvent("batch", batch, o))
           ELSE /\ pc' = "batch_loop"
                /\ j' = j
                /\ ind_results' = ind_results
                /\ i' = NextBatchStart(i, batch_size)
                /\ trace' = trace \o << PostEvent("batch", batch, o), SleepEvent("batch") >>
    /\ UNCHANGED << mode, norm_file, pocket_links, psreadthis_links, user_input,
                    batch_size >>
    /\ UNCHANGED extractorVars
    /\ UNCHANGED clockVars

\* individual_insert, lines 127-146: one iteration
IndividualPost ==
    /\ pc = "individual_loop"
    /\ LET batch == Batch(psreadthis_links, i, batch_size) IN
        /\ j <= Len(batch)
        /\ \E o \in PostOutcomes :
            /\ ind_results' = IndividualOutcome(ind_results, batch[j], j, o)
            /\ trace' = trace \o << PostEvent("individual", IndividualBody(batch[j]), o) >>
                              \o (IF IndividualSleeps(o)
                                  THEN << SleepEvent("individual") >> ELSE << >>)
            /\ j' = NextIndividual(j, o)
    /\ UNCHANGED << mode, pc, norm_file, pocket_links, psreadthis_links, user_input,
                    batch_size, i, results >>
    /\ UNCHANGED extractorVars
    /\ UNCHANGED clockVars

\* individual_insert returns (line 148); batch_insert, lines 104-106 and 115
IndividualReturn ==
    /\ pc = "individual_loop"
    /\ j > Len(Batch(psreadthis_links, i, batch_size))
    /\ results' = MergeIndividual(results, ind_results)
    /\ trace' = Append(trace, SleepEvent("batch"))
    /\ i' = NextBatchStart(i, batch_size)
    /\ pc' = "batch_loop"
    /\ UNCHANGED << mode, norm_file, pocket_links, psreadthis_links, user_input,
                    batch_size, j, ind_results >>
    /\ UNCHANGED extractorVars
    /\ UNCHANGED clockVars

\* batch_insert returns results (line 117); import_links reports them
BatchReturn ==
    /\ pc = "batch_loop"
    /\ i >= Len(psreadthis_links)
    /\ pc' = "returned"
    /\ UNCHANGED << mode, norm_file >>
    /\ UNCHANGED importerVars
    /\ UNCHANGED extractorVars
    /\ UNCHANGED clockVars

\* the steps of batch_insert
BatchInsertStep ==
    \/ BatchPost
    \/ IndividualPost
    \/ IndividualReturn
    \/ BatchReturn

NextImport ==
    \/ TestConnection
    \/ LoadPocketCsv
    \/ Convert
    \/ Confirm
    \/ BatchInsertStep

Spec == Init /\ [][NextImport]_vars

\* batch_insert, once called, keeps running, and every request it sends ends:
\* it returns a response or raises
FairSpec == Spec /\ WF_vars(BatchInsertStep)

----------------------------------------------------------------------------
(* unix_to_iso called on its own *)

\* longest of the short digit strings unix_to_iso is called on
MaxDigits == 3

\* the arguments of unix_to_iso: None, texts that are no digit strings, the
\* digit strings over 0, 1, 9 of up to MaxDigits characters, a current time,
\* the last second of the year 9999 and the one after, 13 and 19 digits,
\* 2^63 - 1, 2^63 and 20 digits
TimestampArgs ==
    { None, s_empty, <<"n">>, <<"1", "a">>, <<"-", "1">>, <<" ", "1">>,
      <<"U+00B2">>, <<"1", "U+00B2">>,
      <<"1","7","0","0","0","0","0","0","0","0">>,
      MAX_TIMESTAMP,
      <<"2","5","3","4","0","2","3","0","0","8","0","0">>,
      <<"9","9","9","9","9","9","9","9","9","9","9","9","9">>,
      <<"1","0","0","0","0","0","0","0","0","0","0","0","0","0","0","0","0","0","0">>,
      TIME_T_MAX,
      <<"9","2","2","3","3","7","2","0","3","6","8","5","4","7","7","5","8","0","8">>,
      <<"9","9","9","9","9","9","9","9","9","9","9","9","9","9","9","9","9","9","9","9">> }
    \cup (SeqsUpTo({"0", "1", "9"}, MaxDigits) \ {<< >>})

\* importer.unix_to_iso(unix_timestamp) on a machine in some zone
InitUnixToIso ==
    /\ mode = "unix_to_iso"
    /\ pc = "call"
    /\ norm_file = Missing
    /\ ImporterIdle
    /\ ExtractorIdle
    /\ tz \in TimeZones
    /\ unix_timestamp \in TimestampArgs
    /\ iso = NoCall

\* lines 30-39
UnixToIso ==
    /\ pc = "call"
    /\ iso' = unix_to_iso(unix_timestamp, tz)
    /\ pc' = IF iso'.raised THEN "raised" ELSE "returned"
    /\ UNCHANGED << mode, norm_file, tz, unix_timestamp >>
    /\ UNCHANGED importerVars
    /\ UNCHANGED extractorVars

TimestampSpec == InitUnixToIso /\ [][UnixToIso]_vars

----------------------------------------------------------------------------
(* The extractor: extract_unread_links.py *)

s_part0 == <<"p","a","r","t","_","0","0","0","0","0","0",".","c","s","v">>
s_part1 == <<"p","a","r","t","_","0","0","0","0","0","1",".","c","s","v">>

\* csv_files = ["part_000000.csv", "part_000001.csv"]
csv_files == << s_part0, s_part1 >>
NumFiles == Len(csv_files)

\* if row_num <= 10
WARN_ROWS == 10

\* rows a source file may yield: a header, the rows A, B and C (read), a row
\* with a sixth field and a time that is a digit but no number, two short
\* rows and an empty one
RowHeader == << s_title, s_url, s_time_added, s_tags, s_status >>
RowA == << <<"A">>, <<"x">>, <<"1", "0", "0">>, s_empty, s_unread >>
RowB == << <<" ", "B">>, <<"y">>, <<"n">>, s_empty, <<" ">> \o s_unread \o <<"\t">> >>
RowC == << <<"C">>, <<"z">>, <<"2", "0", "0">>, s_empty, s_read >>
RowD == << <<"D">>, <<"w">>, <<"U+00B2">>, s_empty, s_unread, <<"e">> >>
RowLoneUnread == << s_unread >>
RowShort == << <<"E">>, <<"v">> >>
RowEmpty == << >>
RowPool == {RowHeader, RowA, RowB, RowC, RowD, RowLoneUnread, RowShort, RowEmpty}

\* the rows of long source files: a row that is not retained and a short one
LongRowPool == {RowC, RowShort}

\* the rows a source file of this run may yield
SourceRows == IF mode = "extract_long" THEN LongRowPool ELSE RowPool

MaxRowsOf(f) ==
    IF f # 1 THEN MaxRowsSecond
    ELSE IF mode = "extract_long" THEN MaxLongRows
    ELSE MaxRows

\* mutant of IsRetained: the status is compared untrimmed
IsRetained_NoStrip(row) == Len(row) >= 5 /\ row[5] = s_unread

\* lines 51-54: the row is appended to unread_links
IsRetained(row) == Len(row) >= 5 /\ Strip(row[5]) = s_unread

\* lines 55-62
MakeLink(row, csv_file) ==
    [title |-> Strip(row[1]), url |-> Strip(row[2]), time_added |-> Strip(row[3]),
     tags |-> Strip(row[4]), status |-> Strip(row[5]), source_file |-> csv_file]

\* lines 65-73: a row 'unread' alone is passed over; other rows of one to four
\* fields are logged while row_num <= 10
LogsWarning(row, n) ==
    /\ ~(Len(row) = 1 /\ Strip(row[1]) = s_unread)
    /\ Len(row) < 5
    /\ Len(row) > 0
    /\ n <= WARN_ROWS

\* lines 97-104
LinkRow(link) ==
    << link.title, link.url, link.time_added, link.tags, link.status, link.source_file >>

\* line 112, for the first five links
SamplePrintRaises(links) ==
    \E k \in 1..Len(links) :
        k <= 5 /\ IsDigit(links[k].time_added) /\ TimestampRaises(links[k].time_added)

\* if unread_links: (line 88)
WritesOutput(links) == links # << >>

\* the file an earlier run of the extractor left behind
StaleFile == File(WriteOutput(<< NormRowA >>))

\* extract_unread_links() is entered
ExtractorStart ==
    /\ pc = "next_file"
    /\ ImporterIdle
    /\ file_idx = 1
    /\ src_rows = [f \in 1..NumFiles |-> << >>]
    /\ src_pos = 0
    /\ row_num = 0
    /\ unread_links = << >>
    /\ total_unread = 0
    /\ file_unread = 0
    /\ file_state = [f \in 1..NumFiles |-> "pending"]
    /\ warnings = [f \in 1..NumFiles |-> << >>]
    /\ loaded = << >>
    /\ ClockIdle

\* extract_unread_links() where an earlier run may have left its output
InitExtract ==
    /\ mode = "extract"
    /\ norm_file \in {Missing, StaleFile}
    /\ ExtractorStart

\* extract_unread_links() on long source files
InitExtractLong ==
    /\ mode = "extract_long"
    /\ norm_file = Missing
    /\ ExtractorStart

\* the for loop goes on to the next file, which ended in state st
NextFile(st) ==
    /\ file_state' = [file_state EXCEPT ![file_idx] = st]
    /\ file_idx' = file_idx + 1
    /\ pc' = "next_file"

\* lines 22-31
StartFile ==
    /\ pc = "next_file"
    /\ file_idx <= NumFiles
    /\ \E exists \in BOOLEAN :
        IF exists
        THEN /\ file_unread' = 0
             /\ pc' = "header"
             /\ UNCHANGED << file_idx, file_state >>
        ELSE /\ NextFile("missing")
             /\ UNCHANGED file_unread
    /\ UNCHANGED << mode, norm_file, src_rows, src_pos, row_num, unread_links,
                    total_unread, warnings, loaded >>
    /\ UNCHANGED importerVars
    /\ UNCHANGED clockVars

\* lines 39-45: the first row is read; an empty one raises IndexError at
\* header[0], which the except clause of line 75 catches. rest is what the
\* file holds after that row.
HeaderRow ==
    /\ pc = "header"
    /\ MaxRowsOf(file_idx) >= 1
    /\ \E row \in SourceRows :
        IF row = << >>
        THEN /\ \E rest \in SeqsUpTo(SourceRows, MaxRowsOf(file_idx) - 1) :
                    src_rows' = [src_rows EXCEPT ![file_idx] = << row >> \o rest]
             /\ NextFile("index_error")
             /\ UNCHANGED << src_pos, row_num >>
        ELSE /\ src_rows' = [src_rows EXCEPT ![file_idx] = << row >>]
             /\ src_pos' = IF row[1] = s_title THEN 1 ELSE 0
             /\ row_num' = 0
             /\ pc' = "rows"
             /\ UNCHANGED << file_idx, file_state >>
    /\ UNCHANGED << mode, norm_file, unread_links, total_unread, file_unread,
                    warnings, loaded >>
    /\ UNCHANGED importerVars
    /\ UNCHANGED clockVars

\* lines 46-47: the file is empty
HeaderEof ==
    /\ pc = "header"
    /\ NextFile("empty")
    /\ UNCHANGED << mode, norm_file, src_rows, src_pos, row_num, unread_links,
                    total_unread, file_unread, warnings, loaded >>
    /\ UNCHANGED importerVars
    /\ UNCHANGED clockVars

\* lines 75-77: open() or the first next(reader) raises
HeaderError ==
    /\ pc = "header"
    /\ NextFile("read_error")
    /\ UNCHANGED << mode, norm_file, src_rows, src_pos, row_num, unread_links,
                    total_unread, file_unread, warnings, loaded >>
    /\ UNCHANGED importerVars
    /\ UNCHANGED clockVars

\* lines 49-73 for one row
Process(row) ==
    /\ row_num' = row_num + 1
    /\ src_pos' = src_pos + 1
    /\ IF IsRetained(row)
       THEN /\ unread_links' = Append(unread_links, MakeLink(row, csv_files[file_idx]))
            /\ file_unread' = file_unread + 1
       ELSE UNCHANGED << unread_links, file_unread >>
    /\ warnings' = IF LogsWarning(row, row_num')
                   THEN [warnings EXCEPT ![file_idx] =
                            Append(@, [row_num |-> row_num', row |-> row])]
                   ELSE warnings

\* one iteration of the loop of line 49: the reader yields the next row, the
\* first row again after f.seek(0)
DataRow ==
    /\ pc = "rows"
    /\ IF src_pos < Len(src_rows[file_idx])
       THEN /\ Process(src_rows[file_idx][src_pos + 1])
            /\ UNCHANGED src_rows
       ELSE /\ Len(src_rows[file_idx]) < MaxRowsOf(file_idx)
            /\ \E row \in SourceRows :
                /\ src_rows' = [src_rows EXCEPT ![file_idx] = Append(@, row)]
                /\ Process(row)
    /\ UNCHANGED << mode, pc, norm_file, file_idx, total_unread, file_state, loaded >>
    /\ UNCHANGED importerVars
    /\ UNCHANGED clockVars

\* the loop of line 49 ends; lines 79-80
EndOfFile ==
    /\ pc = "rows"
    /\ src_pos >= Len(src_rows[file_idx])
    /\ total_unread' = total_unread + file_unread
    /\ NextFile("done")
    /\ UNCHANGED << mode, norm_file, src_rows, src_pos, row_num, unread_links,
                    file_unread, warnings, loaded >>
    /\ UNCHANGED importerVars
    /\ UNCHANGED clockVars

\* the reader raises inside the loop of line 49; lines 75-77
ReadError ==
    /\ pc = "rows"
    /\ src_pos >= Len(src_rows[file_idx])
    /\ NextFile("read_error")
    /\ UNCHANGED << mode, norm_file, src_rows, src_pos, row_num, unread_links,
                    total_unread, file_unread, warnings, loaded >>
    /\ UNCHANGED importerVars
    /\ UNCHANGED clockVars

\* lines 82-121: the output file is written if there are links, the samples
\* are printed, total_unread is returned
Finish ==
    /\ pc = "next_file"
    /\ file_idx > NumFiles
    /\ IF WritesOutput(unread_links)
       THEN /\ norm_file' = File(WriteOutput([k \in 1..Len(unread_links) |->
                                                 LinkRow(unread_links[k])]))
            /\ pc' = IF SamplePrintRaises(unread_links) THEN "raised" ELSE "returned"
       ELSE /\ norm_file' = norm_file
            /\ pc' = "returned"
    /\ UNCHANGED << mode >>
    /\ UNCHANGED importerVars
    /\ UNCHANGED extractorVars
    /\ UNCHANGED clockVars

\* the importer's loader is given the normalized file after the extractor
\* returned
RoundTripLoad ==
    /\ pc = "returned"
    /\ loaded' = load_pocket_csv(norm_file)
    /\ pc' = "loaded"
    /\ UNCHANGED << mode, norm_file, file_idx, src_rows, src_pos, row_num,
                    unread_links, total_unread, file_unread, file_state, warnings >>
    /\ UNCHANGED importerVars
    /\ UNCHANGED clockVars

NextExtract ==
    \/ StartFile
    \/ HeaderRow
    \/ HeaderEof
    \/ HeaderError
    \/ DataRow
    \/ EndOfFile
    \/ ReadError
    \/ Finish
    \/ RoundTripLoad

ExtractSpec == InitExtract /\ [][NextExtract]_vars

LongExtractSpec == InitExtractLong /\ [][NextExtract]_vars

----------------------------------------------------------------------------
(* Claims about the importer *)

IsPost(e) == e.ev = "post"
IsBatchPost(e) == e.ev = "post" /\ e.kind = "batch"
IsIndividualPost(e) == e.ev = "post" /\ e.kind = "individual"
InBody(link, e) == \E r \in 1..Len(e.body) : e.body[r] = link
TraceIdx == 1..Len(trace)
Links == Range(psreadthis_links)
CountEvents(Test(_)) == Cardinality({k \in TraceIdx : Test(trace[k])})

\* C1: when batch_insert returns, success + failed equals the number of
\* records it was given, whatever the batch size and the outcomes of the
\* batched and individual requests.
C1_BatchAccounting ==
    pc = "returned" => results.success + results.failed = Len(psreadthis_links)

\* three records in batches of two: the first batch is rejected and retried
\* individually with one success and one failure, the second raises
C1_Witness ==
    /\ pc = "returned"
    /\ Len(psreadthis_links) = 3
    /\ batch_size = 2
    /\ results.success = 1
    /\ results.failed = 2
    /\ \E k \in TraceIdx : IsBatchPost(trace[k]) /\ trace[k].outcome.raised
    /\ \E k \in TraceIdx : IsIndividualPost(trace[k]) /\ IsSuccess(trace[k].outcome)

\* C2 (as claimed): when batch_insert returns, every batched request that
\* ended in a failure response or in an exception was followed by an
\* individual request for each record of its group.
C2_FallbackOnEveryFailure ==
    pc = "returned" =>
        \A k \in TraceIdx :
            (IsBatchPost(trace[k]) /\ ~IsSuccess(trace[k].outcome)) =>
                \A r \in 1..Len(trace[k].body) :
                    \E m \in TraceIdx :
                        /\ m > k
                        /\ IsIndividualPost(trace[m])
                        /\ trace[m].body = << trace[k].body[r] >>

\* a record is counted as failed when no request that carried it succeeded
Succeeded(link) ==
    \E k \in TraceIdx :
        IsPost(trace[k]) /\ InBody(link, trace[k]) /\ IsSuccess(trace[k].outcome)

PerRecordErrors ==
    {k \in 1..Len(results.errors) : results.errors[k].level = "Individual"}

\* C3 (as claimed): when batch_insert returns, every record counted as failed
\* has an error entry carrying its URL, and there are at least as many
\* per-record error entries as failed records.
C3_EveryFailedRecordHasError ==
    pc = "returned" =>
        /\ \A link \in Links :
              ~Succeeded(link) =>
                  \E k \in PerRecordErrors : results.errors[k].raw_url = link.raw_url
        /\ Cardinality(PerRecordErrors) >= results.failed

\* C4: when the probe of import_links ends in anything but a response with
\* status 200, the run stops there: nothing is loaded, nothing is asked and
\* no request is sent.
C4_ProbeFailureAborts ==
    (mode = "import_links" /\ trace # << >> /\ trace[1].outcome # Response(200)) =>
        /\ pc = "no_connection"
        /\ trace = << GetEvent(trace[1].outcome) >>
        /\ pocket_links = << >>
        /\ psreadthis_links = << >>

\* the probe answered 503 on a run whose normalized file holds records
C4_Witness ==
    /\ mode = "import_links"
    /\ pc = "no_connection"
    /\ trace = << GetEvent(Response(503)) >>
    /\ load_pocket_csv(norm_file) # << >>

\* the inputs of UserInputs that are 'y' once trimmed and lower-cased
AffirmativeInputs == { <<"y">>, <<"Y">>, <<" ", "y", "\t">> }

\* C5: in import_links a POST request is sent only after the prompt was
\* answered affirmatively; after any other answer the run is cancelled and no
\* POST request is sent.
C5_PostOnlyAfterConfirmation ==
    mode = "import_links" =>
        /\ \A k \in TraceIdx :
              IsPost(trace[k]) =>
                  /\ user_input \in AffirmativeInputs
                  /\ \E m \in 1..(k - 1) : trace[m] = InputEvent
        /\ ((\E m \in TraceIdx : trace[m] = InputEvent)
                /\ user_input \notin AffirmativeInputs) =>
              /\ pc = "cancelled"
              /\ \A k \in TraceIdx : ~IsPost(trace[k])

\* the operator just pressed return at the prompt
C5_Witness ==
    /\ mode = "import_links"
    /\ pc = "cancelled"
    /\ user_input = s_empty
    /\ Len(psreadthis_links) > 0
    /\ trace[Len(trace)] = InputEvent

BatchPostsOf(link) == {k \in TraceIdx : IsBatchPost(trace[k]) /\ InBody(link, trace[k])}
IndividualPostsOf(link) ==
    {k \in TraceIdx : IsIndividualPost(trace[k]) /\ InBody(link, trace[k])}

C6_SingleEscalation ==
    /\ \A link \in Links :
          /\ Cardinality(BatchPostsOf(link)) <= 1
          /\ Cardinality(IndividualPostsOf(link)) <= 1
          /\ pc = "returned" => Cardinality(BatchPostsOf(link)) = 1
          /\ \A m \in IndividualPostsOf(link) :
                \E k \in BatchPostsOf(link) : k < m /\ ~IsSuccess(trace[k].outcome)
    /\ \A m \in TraceIdx : IsIndividualPost(trace[m]) => Len(trace[m].body) = 1
    /\ CountEvents(IsPost)
          <= CeilDiv(Len(psreadthis_links), batch_size) + Len(psreadthis_links)

\* C6: every record is sent in exactly one batched request and in at most
\* one individual request, the individual one only after the batched request
\* of its group failed; there are at most ceil(n/b) + n POST requests, and
\* batch_insert, once entered, returns.
C6_SingleEscalationAndReturn ==
    /\ []C6_SingleEscalation
    /\ (pc = "batch_loop") ~> (pc = "returned")

\* two batches of one record: the first is rejected and its record fails
\* again individually, the second succeeds
C6_Witness ==
    /\ pc = "returned"
    /\ Len(psreadthis_links) = 2
    /\ batch_size = 1
    /\ CountEvents(IsPost) = 3
    /\ results.failed = 1
    /\ \E m \in IndividualPostsOf(psreadthis_links[1]) : ~IsSuccess(trace[m].outcome)

\* batch_insert returned after a single batched request, which got a failure
\* response, and every individual request of the fallback got a response
OneBatchRejected ==
    /\ pc = "returned"
    /\ CountEvents(IsBatchPost) = 1
    /\ \A k \in TraceIdx :
          /\ IsBatchPost(trace[k]) => RetriesIndividually(trace[k].outcome)
          /\ IsIndividualPost(trace[k]) => ~trace[k].outcome.raised

\* the individual requests that were rejected, in the order they were sent
RejectedPosts ==
    SelectSeq(trace, LAMBDA e : IsIndividualPost(e) /\ ~IsSuccess(e.outcome))

AcceptedCount ==
    CountEvents(LAMBDA e : IsIndividualPost(e) /\ IsSuccess(e.outcome))

\* C14 (as claimed): when the batched request of a group of m records gets a
\* failure response and k records succeed individually while m-k are
\* rejected, the result holds success = k, failed = m-k and m-k error
\* strings, one with the URL of each rejected record.
C14_FallbackReportAsClaimed ==
    OneBatchRejected =>
        /\ results.success = AcceptedCount
        /\ results.failed = Len(psreadthis_links) - AcceptedCount
        /\ Len(results.errors) = Len(psreadthis_links) - AcceptedCount
        /\ \A n \in 1..Len(RejectedPosts) :
              \E e \in 1..Len(results.errors) :
                  results.errors[e].raw_url = RejectedPosts[n].body[1].raw_url

\* C14 (amended): when the batched request of a group of m records gets a
\* failure response and k records succeed individually while m-k are
\* rejected, the result holds success = k, failed = m-k and m-k+1 error
\* strings: the error of the batch, then one for each rejected record, in the
\* order sent, with its status code and its URL.
C14_FallbackReport ==
    OneBatchRejected =>
        /\ results.success = AcceptedCount
        /\ results.failed = Len(psreadthis_links) - AcceptedCount
        /\ Len(results.errors) = Len(psreadthis_links) - AcceptedCount + 1
        /\ results.errors[1].level = "Batch"
        /\ results.errors[1].raw_url = None
        /\ Len(RejectedPosts) = Len(psreadthis_links) - AcceptedCount
        /\ \A n \in 1..Len(RejectedPosts) :
              /\ results.errors[n + 1].level = "Individual"
              /\ results.errors[n + 1].what = "failed"
              /\ results.errors[n + 1].status_code = RejectedPosts[n].outcome.status_code
              /\ results.errors[n + 1].raw_url = RejectedPosts[n].body[1].raw_url

\* three records in one batch, answered 500; individually the first is
\* accepted and the other two are answered 400
C14_Witness ==
    /\ OneBatchRejected
    /\ Len(psreadthis_links) = 3
    /\ \E k \in TraceIdx : IsBatchPost(trace[k]) /\ trace[k].outcome = Response(500)
    /\ results.success = 1
    /\ results.failed = 2
    /\ Len(results.errors) = 3
    /\ \A n \in 1..Len(RejectedPosts) : RejectedPosts[n].outcome = Response(400)

\* every record sent is one of the converted records, identifier included,
\* and an individual request carries a record its batched request carried
SentAsConverted ==
    /\ \A k \in TraceIdx :
          IsPost(trace[k]) =>
              \A r \in 1..Len(trace[k].body) : trace[k].body[r] \in Links
    /\ \A m \in TraceIdx :
          IsIndividualPost(trace[m]) =>
              \E k \in 1..(m - 1) :
                  IsBatchPost(trace[k]) /\ InBody(trace[m].body[1], trace[k])
    /\ \A a, b \in 1..Len(psreadthis_links) :
          a # b => psreadthis_links[a].id # psreadthis_links[b].id

\* where import_links is once line 200 has converted the loaded records
PastConversion == {"confirm", "cancelled", "batch_loop", "individual_loop", "returned"}

\* in import_links, once the conversion is done, the target records are the
\* loaded records, one for one and in order; there is none before, and no
\* request is sent before
ConvertedOneForOne ==
    mode = "import_links" =>
        /\ pc \in PastConversion =>
              /\ pocket_links # << >>
              /\ Len(psreadthis_links) = Len(pocket_links)
              /\ \A k \in 1..Len(pocket_links) :
                    psreadthis_links[k].raw_url = pocket_links[k][s_url]
        /\ pc \notin PastConversion =>
              /\ psreadthis_links = << >>
              /\ \A k \in TraceIdx : ~IsPost(trace[k])

\* C19: every loaded record is converted exactly once, before any request is
\* sent, so there are as many target records as loaded records; the record
\* sent in the individual fallback, its generated id included, is the one its
\* batched request carried, and no record is sent under two ids.
C19_ConvertedOnceStableIds ==
    /\ [](SentAsConverted /\ ConvertedOneForOne)
    /\ [][psreadthis_links # << >> => psreadthis_links' = psreadthis_links]_vars

\* import_links on two records: the batched request is rejected and both
\* records are sent again individually
C19_Witness ==
    /\ mode = "import_links"
    /\ pc = "returned"
    /\ Len(pocket_links) = 2
    /\ Len(psreadthis_links) = 2
    /\ \E k \in TraceIdx : IsBatchPost(trace[k]) /\ trace[k].body = psreadthis_links
    /\ \A n \in 1..2 :
          \E m \in TraceIdx :
              IsIndividualPost(trace[m]) /\ trace[m].body = << psreadthis_links[n] >>

IsSleep(e) == e.ev = "sleep"

\* C15 (as claimed): every POST request, batched or individual, whatever its
\* outcome, is followed by a delay before the next request is sent or
\* batch_insert returns; no two POST requests follow each other directly.
C15_DelayAfterEveryRequest ==
    \A k \in TraceIdx :
        IsPost(trace[k]) =>
            /\ k < Len(trace) => IsSleep(trace[k + 1])
            /\ pc = "returned" => k < Len(trace)

\* the normalized files of NormFiles that hold a row whose status is "unread"
UnreadFiles ==
    {File(WriteOutput(rows)) :
        rows \in {r \in SeqsUpTo(NormRowPool, MaxFileRows) :
                     \E k \in 1..Len(r) : r[k][5] = s_unread}}

\* C16: when the normalized file cannot be read or holds no record whose
\* status is "unread", import_links ends right after the load: nothing is
\* converted, nothing is asked and no POST request is sent.
C16_LoadFailureIsFatal ==
    (/\ mode = "import_links"
     /\ \E k \in TraceIdx : trace[k] = LoadEvent
     /\ norm_file \notin UnreadFiles) =>
        /\ pc = "no_links"
        /\ trace = << GetEvent(Response(200)), LoadEvent >>
        /\ pocket_links = << >>
        /\ psreadthis_links = << >>
        /\ user_input = << >>

\* the normalized file holds two records, both with status "read"
C16_Witness ==
    /\ mode = "import_links"
    /\ pc = "no_links"
    /\ norm_file = File(WriteOutput(<< NormRowC, NormRowC >>))
    /\ trace[Len(trace)] = LoadEvent

\* the batched requests sent so far, in order
BatchPosts == SelectSeq(trace, IsBatchPost)

\* C17: batch_insert cuts the records into consecutive groups in input order:
\* every group holds between 1 and batch_size records, only the last may hold
\* fewer than batch_size, every record is in exactly one group, and each
\* group is sent in exactly one batched request, ceil(n/batch_size) in all.
C17_ConsecutiveGroups ==
    pc = "returned" =>
        /\ Len(BatchPosts) = CeilDiv(Len(psreadthis_links), batch_size)
        /\ Concat([k \in 1..Len(BatchPosts) |-> BatchPosts[k].body]) = psreadthis_links
        /\ \A k \in 1..Len(BatchPosts) :
              /\ Len(BatchPosts[k].body) >= 1
              /\ Len(BatchPosts[k].body) <= batch_size
              /\ k < Len(BatchPosts) => Len(BatchPosts[k].body) = batch_size
        /\ \A n \in 1..Len(psreadthis_links) :
              Cardinality({k \in 1..Len(BatchPosts) :
                              InBody(psreadthis_links[n], BatchPosts[k])}) = 1

\* three records in batches of two: a group of two, then a group of one
C17_Witness ==
    /\ pc = "returned"
    /\ Len(psreadthis_links) = 3
    /\ batch_size = 2
    /\ Len(BatchPosts) = 2
    /\ BatchPosts[1].body = SubSeq(psreadthis_links, 1, 2)
    /\ BatchPosts[2].body = << psreadthis_links[3] >>

----------------------------------------------------------------------------
(* Claims about the extractor *)

ExtractFinished == pc \in {"returned", "raised", "loaded"}
FileIdx == 1..NumFiles

\* the retained links that came from source file f, as rows
LinkRowsFrom(f) ==
    LET from == SelectSeq(unread_links, LAMBDA l : l.source_file = csv_files[f])
    IN [k \in 1..Len(from) |-> LinkRow(from[k])]

\* the data rows of the written output file that name source file f
OutputRowsFrom(f) ==
    SelectSeq(Tail(ReadRows(norm_file.text)), LAMBDA r : r[6] = csv_files[f])

\* the status fields of RowPool that are "unread" once trimmed
UnreadSpellings == { s_unread, <<" ">> \o s_unread \o <<"\t">> }

ShouldRetain(row) == Len(row) >= 5 /\ row[5] \in UnreadSpellings

\* the rows the output must hold for the rows of source file f
ExpectedRows(rows, f) ==
    LET kept == SelectSeq(rows, ShouldRetain)
    IN [k \in 1..Len(kept) |-> LinkRow(MakeLink(kept[k], csv_files[f]))]

\* C7 (as claimed): once the extractor is through, a source file whose
\* reading raised has no record in the retained list, and every other file
\* was still processed.
C7_FailedFileContributesNothing ==
    ExtractFinished =>
        \A f \in FileIdx :
            file_state[f] \in {"read_error", "index_error"} =>
                /\ LinkRowsFrom(f) = << >>
                /\ \A g \in FileIdx : file_state[g] # "pending"

\* C8 (as claimed): the total the extractor returns equals the number of data
\* rows it wrote to the normalized file, and the number of records
\* load_pocket_csv returns for that file.
C8_RoundTripCount ==
    pc = "loaded" =>
        IF unread_links # << >>
        THEN /\ total_unread = Len(ReadRows(norm_file.text)) - 1
             /\ total_unread = Len(loaded)
        ELSE total_unread = 0

FirstRowIsNoHeader(rows) == rows # << >> /\ (rows[1] = << >> \/ rows[1][1] # s_title)

\* C9 (as claimed): for a source file whose first row does not start with
\* "title" (an empty first row included) and whose reading raised no error,
\* every row of the file that satisfies the filter is retained, the first
\* row included.
C9_NoHeaderNoLoss ==
    ExtractFinished =>
        \A f \in FileIdx :
            (file_state[f] \in {"done", "index_error"} /\ FirstRowIsNoHeader(src_rows[f])) =>
                LinkRowsFrom(f) = ExpectedRows(src_rows[f], f)

\* the data rows of a file that was read to its end
DataRows(f) ==
    IF src_rows[f][1][1] = s_title THEN Tail(src_rows[f]) ELSE src_rows[f]

\* C10: for a source file read to its end without error, the retained list,
\* and the output file once written, hold exactly the data rows with at least
\* five fields whose fifth field, trimmed, is "unread".
C10_FilterPredicate ==
    ExtractFinished =>
        \A f \in FileIdx :
            file_state[f] = "done" =>
                /\ LinkRowsFrom(f) = ExpectedRows(DataRows(f), f)
                /\ pc \in {"returned", "raised"} =>
                      IF unread_links # << >>
                      THEN OutputRowsFrom(f) = ExpectedRows(DataRows(f), f)
                      ELSE ExpectedRows(DataRows(f), f) = << >>

\* rows A and C (read) in the first file, row B (non-numeric time) in the
\* second: the output file holds A and B
C10_Witness ==
    /\ pc = "returned"
    /\ src_rows = << << RowA, RowC >>, << RowB >> >>
    /\ file_state = << "done", "done" >>
    /\ Tail(ReadRows(norm_file.text))
          = << LinkRow(MakeLink(RowA, s_part0)), LinkRow(MakeLink(RowB, s_part1)) >>
    /\ total_unread = 2

\* a row with fewer than five fields, the empty row included
IsMalformed(row) == Len(row) < 5

\* the rows of RowPool with five fields or more, as the records they become
WellFormedLinks(f) ==
    {MakeLink(row, csv_files[f]) : row \in {RowHeader, RowA, RowB, RowC, RowD}}

\* C11 (as claimed): on source files that hold rows with fewer than five
\* fields, wherever they stand, the extractor does not raise, and no such row
\* is among the retained records.
C11_MalformedRowsExcludedNoRaise ==
    (\E f \in FileIdx : \E k \in 1..Len(src_rows[f]) : IsMalformed(src_rows[f][k])) =>
        /\ pc # "raised"
        /\ \A k \in 1..Len(unread_links) :
              \E f \in FileIdx : unread_links[k] \in WellFormedLinks(f)

\* the rows of file f with fewer than five fields, with their row numbers
ShortRows(f) ==
    LET numbered == [k \in 1..Len(DataRows(f)) |-> [row_num |-> k, row |-> DataRows(f)[k]]]
    IN SelectSeq(numbered, LAMBDA r : IsMalformed(r.row))

\* C18 (as claimed): for a source file read to its end, the rows logged as
\* warnings are the first 10 of its rows with fewer than five fields, all of
\* them when there are fewer than 10, wherever in the file they stand.
C18_FirstTenAnomaliesLogged ==
    ExtractFinished =>
        \A f \in FileIdx :
            file_state[f] = "done" =>
                warnings[f] = SubSeq(ShortRows(f), 1,
                                     IF Len(ShortRows(f)) < WARN_ROWS
                                     THEN Len(ShortRows(f)) ELSE WARN_ROWS)

\* the output file as the extractor writes it for the retained records
WrittenFile ==
    File(WriteOutput([k \in 1..Len(unread_links) |-> LinkRow(unread_links[k])]))

\* the step in which extract_unread_links gets past its loop over the files
IsFinishStep == pc = "next_file" /\ pc' \in {"returned", "raised"}

\* once the extractor is through: the output file is the written one if
\* records were retained; if none was, 0 is returned and the loader reads
\* the records of the earlier run from the file that run left
OutputOnlyForRecords ==
    (mode = "extract" /\ ExtractFinished) =>
        /\ unread_links # << >> => norm_file = WrittenFile
        /\ unread_links = << >> =>
              /\ pc # "raised"
              /\ total_unread = 0
              /\ norm_file \in {Missing, StaleFile}
              /\ (pc = "loaded" /\ norm_file = StaleFile) =>
                    /\ Len(loaded) = 1
                    /\ loaded[1][s_url] = NormRowA[2]
                    /\ loaded[1][s_status] = s_unread

\* C20 (as claimed): the extractor writes the normalized output file if and
\* only if it retained at least one record; when it retained none it returns
\* 0 and leaves an existing output file as it was; and a run that returns 0
\* leaves the file of an earlier run as it was, for the importer's loader to
\* load that run's records.
C20_WriteOnlyWhenRetained ==
    /\ []OutputOnlyForRecords
    /\ [][mode = "extract" =>
             /\ norm_file' # norm_file => (IsFinishStep /\ unread_links # << >>)
             /\ (IsFinishStep /\ unread_links # << >>) => norm_file' = WrittenFile
             /\ (IsFinishStep /\ unread_links = << >>) => norm_file' = norm_file
             /\ (IsFinishStep /\ total_unread = 0 /\ norm_file = StaleFile) =>
                   norm_file' = StaleFile]_vars

----------------------------------------------------------------------------
(* Claims about unix_to_iso *)

CallEnded == mode = "unix_to_iso" /\ pc # "call"

\* C12 (as claimed): whatever its argument (None, the empty text, text that
\* is no number, digit strings of any length, digits that are not ASCII),
\* unix_to_iso does not raise and returns a timestamp that ends in "+00:00".
C12_ConversionIsTotal ==
    CallEnded =>
        /\ pc = "returned"
        /\ ~iso.raised
        /\ iso.value.offset = UTC_SUFFIX

\* the instant an ISO timestamp with the offset "+00:00" denotes
InstantOf(stamp) == DateTime(stamp.date, stamp.time)

\* a string of ASCII digits that denotes a second datetime can hold in every
\* zone of TimeZones
IsValidTimestamp(t) ==
    /\ t # None
    /\ t # << >>
    /\ \A k \in 1..Len(t) : t[k] \in AsciiDigits
    /\ Len(StripZeros(t)) < Len(MAX_TIMESTAMP)

\* C13 (as claimed): for a string t of ASCII digits, the timestamp
\* unix_to_iso returns denotes the instant t seconds after the epoch, in
\* whatever zone the machine is.
C13_DenotesEpochSeconds ==
    (CallEnded /\ IsValidTimestamp(unix_timestamp)) =>
        /\ ~iso.raised
        /\ iso.value.offset = UTC_SUFFIX
        /\ InstantOf(iso.value) = EpochOf(unix_timestamp)

====
